---- MODULE Spec2Model ----
(***************************************************************************)
(* The flash-backed object store of store/flash.c: the block registry with *)
(* its free and bad lists, the page-level write/read engine, the object    *)
(* framing layer, the store table and the public queue API.                *)
(*                                                                         *)
(* Data is measured in units: a page holds PageSize units and the object   *)
(* header (flash_object_hdr_t) is one unit.  The header's timestamp is     *)
(* written and never read by the code, so the header unit carries sync,    *)
(* handle, size and sid only.                                              *)
(***************************************************************************)
EXTENDS Integers, Sequences, FiniteSets, TLC

\* ---- device geometry reported by the driver, and the model's bounds ----
NumBlocks == 3
PagesPerBlock == 2
PageSize == 2
HdrSize == 1
FLASH_MAX_STORES == 2
BP_FLASH_INVALID_INDEX == 65535
MaxAttr == 4
MaxEnq == 4
MaxDeq == 4
MaxRel == 4
MaxFaults == 1
MaxInits == 2
FrameFaults == 1
MaxAllocs == 6

Blocks == 0 .. (NumBlocks - 1)
Pages == 0 .. (PagesPerBlock - 1)
Handles == 0 .. (FLASH_MAX_STORES - 1)
INV == BP_FLASH_INVALID_INDEX
FLASH_OBJECT_SYNC == "BP FLASH"

Min(a, b) == IF a < b THEN a ELSE b

\* ---- units held by pages and stages ----
ErasedUnit == [v |-> 255]
DataUnit(x) == [v |-> x]
HdrUnit(handle, size, sid) ==
    [sync |-> FLASH_OBJECT_SYNC, handle |-> handle, size |-> size, sid |-> sid]
IsHdrUnit(u) == "sync" \in DOMAIN u

\* The header a buffer's first bytes are reinterpreted as ((flash_object_hdr_t*) cast).
\* Bytes that are no header give a sync that is not the magic and a sid no caller holds.
HdrView(buf) ==
    IF Len(buf) > 0 /\ IsHdrUnit(buf[1])
    THEN buf[1]
    ELSE [sync |-> "garbage", handle |-> -1, size |-> -1, sid |-> 0]

\* A sid that tells the block and not the page.
sid_of_block_only(addr) == addr.block + 1

FLASH_GET_SID(addr) == ((addr.block * PagesPerBlock) + addr.page) + 1
FLASH_GET_BLOCK(sid) == IF sid >= 1 THEN (sid - 1) \div PagesPerBlock ELSE INV
FLASH_GET_PAGE(sid) == IF sid >= 1 THEN (sid - 1) % PagesPerBlock ELSE PagesPerBlock - 1

Addr(b, p) == [block |-> b, page |-> p]

\* ---- the device: block registry, lists, counters, and the driver's state ----
\* A device value d has the fields
\*   blocks : [Blocks -> flash_block_control_t]   free, bad : flash_block_list_t
\*   used, errs : the counters                    flash : the pages' contents
\*   isbad, efail, wfail : blocks reported bad, blocks whose erase fails,
\*                         pages whose write fails
\*   rfail : pages whose read fails
ErasedBlock == [p \in Pages |-> << >>]

\* FLASH_DRIVER.erase
DriverEraseOk(d, b) == b \notin d.efail
DriverErase(d, b) == [d EXCEPT !.flash[b] = ErasedBlock]
\* FLASH_DRIVER.write
DriverWriteOk(d, addr) == <<addr.block, addr.page>> \notin d.wfail
DriverWrite(d, addr, data) == [d EXCEPT !.flash[addr.block][addr.page] = data]
\* FLASH_DRIVER.read: n units of the page, the unwritten rest reading as erased
DriverReadOk(d, addr) == <<addr.block, addr.page>> \notin d.rfail
DriverRead(d, addr, n) ==
    LET c == d.flash[addr.block][addr.page]
    IN  [i \in 1 .. n |-> IF i <= Len(c) THEN c[i] ELSE ErasedUnit]
\* FLASH_DRIVER.isbad
DriverIsBad(d, b) == b \in d.isbad

\* An add that puts the block at the out end of the list.
list_add_at_out(d, l, block) ==
    LET list == d[l]
    IN  [d EXCEPT !.blocks[block].next_block = list.out,
                  ![l] = [out |-> block,
                          in |-> IF list.out = INV THEN block ELSE list.in,
                          count |-> list.count + 1]]

flash_block_list_add(d, l, block) ==
    LET list == d[l]
        b1 == IF list.out = INV
              THEN d.blocks
              ELSE [d.blocks EXCEPT ![list.in].next_block = block]
        b2 == [b1 EXCEPT ![block].prev_block = list.in]
    IN  [d EXCEPT !.blocks = b2,
                  ![l] = [out |-> IF list.out = INV THEN block ELSE list.out,
                          in |-> block,
                          count |-> list.count + 1]]

\* A reclaim that leaves the used block count as it is.
reclaim_keeps_used_count(d, block) ==
    LET d1 == [d EXCEPT !.blocks[block] = [next_block |-> INV,
                                           prev_block |-> INV,
                                           max_pages |-> PagesPerBlock,
                                           page_use |-> Pages]]
    IN  IF ~DriverIsBad(d, block)
        THEN [d |-> flash_block_list_add(d1, "free", block), status |-> "SUCCESS"]
        ELSE [d |-> flash_block_list_add(d1, "bad", block), status |-> "ERROR"]

flash_free_reclaim(d, block) ==
    LET d1 == [d EXCEPT !.blocks[block] = [next_block |-> INV,
                                           prev_block |-> INV,
                                           max_pages |-> PagesPerBlock,
                                           page_use |-> Pages],
                        !.used = @ - 1]
    IN  IF ~DriverIsBad(d, block)
        THEN [d |-> flash_block_list_add(d1, "free", block), status |-> "SUCCESS"]
        ELSE [d |-> flash_block_list_add(d1, "bad", block), status |-> "ERROR"]

\* "Move to Next Free Block" at the end of an iteration of flash_free_allocate.
NextFreeBlock(d) ==
    [d EXCEPT !.free.out = d.blocks[d.free.out].next_block,
              !.free.count = @ - 1]

\* The loop of flash_free_allocate; block is the caller's variable, written
\* only on success.  fuel bounds the iterations: a free list that runs into
\* a cycle of blocks whose erase fails never ends the loop ("HANG").
RECURSIVE AllocateLoop(_, _, _, _)
AllocateLoop(d, status, block, fuel) ==
    IF ~(status # "SUCCESS" /\ d.free.out # INV)
    THEN [d |-> d, status |-> status, block |-> block]
    ELSE IF fuel = 0
    THEN [d |-> d, status |-> "HANG", block |-> block]
    ELSE IF DriverEraseOk(d, d.free.out)
    THEN AllocateLoop(NextFreeBlock([DriverErase(d, d.free.out) EXCEPT !.used = @ + 1]),
                      "SUCCESS", d.free.out, fuel - 1)
    ELSE AllocateLoop(NextFreeBlock(flash_block_list_add([d EXCEPT !.errs = @ + 1],
                                                         "bad", d.free.out)),
                      "ERROR", block, fuel - 1)

AllocFuel == 2 * NumBlocks + 2

flash_free_allocate(d, block) == AllocateLoop(d, "FAILEDSTORE", block, AllocFuel)

ValidAddr(d, addr) ==
    /\ addr.block \in Blocks
    /\ addr.page < d.blocks[addr.block].max_pages

\* ---- page-level engine ----
\* The loop of flash_data_write over the bytes left.  fuel bounds the
\* iterations: when every block the allocator hands out fails its page-0
\* write and is reclaimed as free again, the loop never ends ("HANG").
RECURSIVE DataWriteLoop(_, _, _, _)

\* The block after the one just filled: al is what flash_free_allocate
\* returned, a1 the address past the page written.
WriteNextBlock(al, a1, rest, fuel) ==
    IF al.status = "SUCCESS"
    THEN DataWriteLoop([al.d EXCEPT !.blocks[a1.block].next_block = al.block,
                                    !.blocks[al.block].prev_block = a1.block],
                       Addr(al.block, 0), rest, fuel - 1)
    ELSE [d |-> al.d, addr |-> a1, status |-> al.status]

\* The links written after a failed page write: new replaces block failed.
LinkReplacement(d, failed, new) ==
    LET prev_write_block == d.blocks[failed].prev_block
        b1 == IF prev_write_block # INV
              THEN [d.blocks EXCEPT ![prev_write_block].next_block = new]
              ELSE d.blocks
    IN  [d EXCEPT !.blocks = [b1 EXCEPT ![new].prev_block = prev_write_block]]

\* The retry after a failed page write: al is what flash_free_allocate
\* returned, addr the address whose write failed.
WriteReplacement(al, addr, data, fuel) ==
    IF al.status = "SUCCESS"
    THEN DataWriteLoop(LinkReplacement(al.d, addr.block, al.block),
                       Addr(al.block, 0), data, fuel - 1)
    ELSE [d |-> al.d, addr |-> addr, status |-> al.status]

\* The block of a failed page write is truncated at a page above 0 and
\* reclaimed as free at page 0.
RetireFailed(d, addr) ==
    IF addr.page > 0
    THEN [d EXCEPT !.blocks[addr.block].max_pages = addr.page]
    ELSE flash_free_reclaim(d, addr.block).d

DataWriteLoop(d, addr, data, fuel) ==
    IF Len(data) = 0
    THEN [d |-> d, addr |-> addr, status |-> "SUCCESS"]
    ELSE IF fuel = 0
    THEN [d |-> d, addr |-> addr, status |-> "HANG"]
    ELSE
    LET bytes_to_copy == Min(Len(data), PageSize)
        rest == SubSeq(data, bytes_to_copy + 1, Len(data))
        a1 == [addr EXCEPT !.page = @ + 1]
    IN  IF DriverWriteOk(d, addr)
        THEN IF a1.page = d.blocks[a1.block].max_pages
             THEN WriteNextBlock(
                      flash_free_allocate(
                          DriverWrite(d, addr, SubSeq(data, 1, bytes_to_copy)), INV),
                      a1, rest, fuel)
             ELSE DataWriteLoop(DriverWrite(d, addr, SubSeq(data, 1, bytes_to_copy)),
                                a1, rest, fuel - 1)
        ELSE \* Write Failed
             WriteReplacement(
                 flash_free_allocate(RetireFailed([d EXCEPT !.errs = @ + 1], addr), INV),
                 addr, data, fuel)

MaxObjectPages == ((HdrSize + MaxAttr + 1) + PageSize - 1) \div PageSize
WriteFuel == (NumBlocks + 2) * (MaxObjectPages + 1)

flash_data_write(d, addr, data) ==
    IF ~ValidAddr(d, addr)
    THEN [d |-> d, addr |-> addr, status |-> "FAILEDSTORE"]
    ELSE DataWriteLoop(d, addr, data, WriteFuel)

\* The loop of flash_data_read; acc is what has been copied into the buffer.
\* errs in a result is what the call has added to flash_error_count.
RECURSIVE DataReadLoop(_, _, _, _)
DataReadLoop(d, addr, bytes_left, acc) ==
    IF bytes_left <= 0
    THEN [addr |-> addr, data |-> acc, status |-> "SUCCESS", errs |-> 0]
    ELSE IF ~DriverReadOk(d, addr)
    THEN [addr |-> addr, data |-> acc, status |-> "ERROR", errs |-> 1]
    ELSE
    LET bytes_to_copy == Min(bytes_left, PageSize)
        acc1 == acc \o DriverRead(d, addr, bytes_to_copy)
        a1 == [addr EXCEPT !.page = @ + 1]
    IN  IF a1.page = d.blocks[a1.block].max_pages
        THEN LET next_read_block == d.blocks[a1.block].next_block
             IN  IF next_read_block = INV
                 THEN [addr |-> a1, data |-> acc1, status |-> "FAILEDSTORE", errs |-> 0]
                 ELSE DataReadLoop(d, Addr(next_read_block, 0),
                                   bytes_left - bytes_to_copy, acc1)
        ELSE DataReadLoop(d, a1, bytes_left - bytes_to_copy, acc1)

\* A flash_data_read that leaves *addr where the caller set it.
data_read_keeps_addr(d, addr, size) ==
    IF ~ValidAddr(d, addr)
    THEN [addr |-> addr, data |-> << >>, status |-> "FAILEDSTORE", errs |-> 0]
    ELSE [DataReadLoop(d, addr, size, << >>) EXCEPT !.addr = addr]

flash_data_read(d, addr, size) ==
    IF ~ValidAddr(d, addr)
    THEN [addr |-> addr, data |-> << >>, status |-> "FAILEDSTORE", errs |-> 0]
    ELSE DataReadLoop(d, addr, size, << >>)

\* ---- object framing layer ----
\* (uint64_t)count * pages_per_block * page_size >= bytes_needed: a negative
\* count converts to a value near 2^64, above any size the model writes.
RoomAvailable(d, bytes_needed) ==
    \/ d.free.count < 0
    \/ d.free.count * PagesPerBlock * PageSize >= bytes_needed

\* flash_data_write moves fs->write_addr, which it is given by reference,
\* whatever it returns; w is its result.
ObjectWritten(fs, w) ==
    [d |-> w.d, fs |-> [fs EXCEPT !.write_addr = w.addr], status |-> w.status]

flash_object_write(d, fs, handle, data1, data2) ==
    LET bytes_needed == HdrSize + Len(data1) + Len(data2)
    IN  IF RoomAvailable(d, bytes_needed) /\ fs.max_data_size >= bytes_needed
        THEN LET sid == FLASH_GET_SID(fs.write_addr)
                 write_stage == <<HdrUnit(handle, Len(data1) + Len(data2), sid)>>
                                    \o data1 \o data2
             IN  ObjectWritten(fs, flash_data_write(d, fs.write_addr, write_stage))
        ELSE [d |-> d, fs |-> fs, status |-> "STOREFULL"]

\* What the caller sees through the returned bp_object_t pointer into the read stage.
ObjectOf(stage) ==
    LET h == HdrView(stage)
    IN  [handle |-> h.handle, size |-> h.size, sid |-> h.sid,
         data |-> SubSeq(stage, HdrSize + 1, HdrSize + h.size)]

NoObject == [handle |-> -1, size |-> -1, sid |-> -1, data |-> << >>]

\* The end of flash_object_read: stage1 is the stage after the first page
\* was read into it, r2 the result of reading the remaining bytes.
ObjectReadDone(fs, stage1, r2) ==
    [fs |-> [fs EXCEPT !.read_stage = stage1 \o r2.data,
                       !.stage_locked = (r2.status = "SUCCESS")],
     addr |-> r2.addr,
     status |-> r2.status,
     errs |-> r2.errs,
     object |-> IF r2.status = "SUCCESS" THEN ObjectOf(stage1 \o r2.data) ELSE NoObject]

\* flash_object_read after its first flash_data_read returned r1 and left
\* stage1 in the stage: validate the header, read the remaining bytes.
ObjectReadRest(d, fs, handle, r1, stage1) ==
    LET hdr == HdrView(stage1)
        valid == /\ hdr.size <= fs.max_data_size
                 /\ hdr.handle = handle
                 /\ hdr.sync = FLASH_OBJECT_SYNC
        remaining_bytes == hdr.size - (PageSize - HdrSize)
    IN  ObjectReadDone(fs, stage1,
            IF r1.status = "SUCCESS" /\ valid /\ remaining_bytes > 0
            THEN flash_data_read(d, r1.addr, remaining_bytes)
            ELSE [addr |-> r1.addr, data |-> << >>, errs |-> 0,
                  status |-> IF r1.status # "SUCCESS" THEN r1.status
                             ELSE IF valid THEN "SUCCESS" ELSE "FAILEDSTORE"])

\* The stage after the first flash_data_read returned r1: the bytes it copied.
StageAfter(fs, r1) ==
    IF r1.status = "SUCCESS" \/ Len(r1.data) > 0 THEN r1.data ELSE fs.read_stage

\* The read stage is modelled by the bytes the call reads into it; the bytes
\* behind them keep older contents that no returned object covers.
ObjectReadFirst(d, fs, handle, r1) ==
    [ObjectReadRest(d, fs, handle, r1, StageAfter(fs, r1)) EXCEPT !.errs = @ + r1.errs]

\* A read that does not look at the stage lock.
object_read_ignores_lock(d, fs, handle, addr) ==
    ObjectReadFirst(d, fs, handle, flash_data_read(d, addr, PageSize))

flash_object_read(d, fs, handle, addr) ==
    IF fs.stage_locked = FALSE
    THEN ObjectReadFirst(d, fs, handle, flash_data_read(d, addr, PageSize))
    ELSE [fs |-> fs, addr |-> addr, status |-> "FAILEDSTORE", errs |-> 0,
          object |-> NoObject]

\* The loop of flash_object_scan.  flash_data_read advances the address it is
\* given.  A page index above max_pages fails the address check of every
\* following iteration until the unsigned index wraps to 0, so the walk
\* resumes at page 0 of the same block.  fuel bounds the iterations: a walk
\* that returns to an address it has left never ends ("HANG").
RECURSIVE ScanLoop(_, _, _)
ScanLoop(d, addr, fuel) ==
    IF addr.block = INV
    THEN [addr |-> addr, status |-> "ERROR", errs |-> 0]
    ELSE IF fuel = 0
    THEN [addr |-> addr, status |-> "HANG", errs |-> 0]
    ELSE LET r == flash_data_read(d, addr, HdrSize)
         IN  IF r.status = "SUCCESS" /\ HdrView(r.data).sync = FLASH_OBJECT_SYNC
             THEN [addr |-> r.addr, status |-> "SUCCESS", errs |-> 0]
             ELSE LET p1 == r.addr.page + 1
                      b == r.addr.block
                      max == d.blocks[b].max_pages
                      rest == IF p1 = max
                              THEN ScanLoop(d, Addr(d.blocks[b].next_block, 0), fuel - 1)
                              ELSE IF p1 > max
                              THEN ScanLoop(d, Addr(b, 0), fuel - 1)
                              ELSE ScanLoop(d, Addr(b, p1), fuel - 1)
                  IN  [rest EXCEPT !.errs = @ + r.errs]

ScanFuel == NumBlocks * (PagesPerBlock + 2) + 2

flash_object_scan(d, addr) == ScanLoop(d, addr, ScanFuel)

\* The bits the counting loop of flash_object_delete visits: pages_per_block
\* is a multiple of 8 on the devices the bitmap is sized for, so every page.
CountedPages == Pages

\* The loop of flash_object_delete over the bytes left.
RECURSIVE DeleteLoop(_, _, _, _, _)
DeleteLoop(d, addr, current_block, current_block_free_pages, bytes_left) ==
    IF bytes_left <= 0
    THEN [d |-> d, status |-> "SUCCESS"]
    ELSE
    LET cb == addr.block
        fp0 == IF current_block # addr.block
               THEN Cardinality(CountedPages \ d.blocks[cb].page_use)
               ELSE current_block_free_pages
        bit_set == addr.page \in d.blocks[addr.block].page_use
        d1 == IF bit_set
              THEN [d EXCEPT !.blocks[addr.block].page_use = @ \ {addr.page}]
              ELSE d
        fp1 == IF bit_set THEN fp0 + 1 ELSE fp0
        left1 == bytes_left - Min(bytes_left, PageSize)
        a1 == [addr EXCEPT !.page = @ + 1]
        at_end == a1.page = d1.blocks[a1.block].max_pages
        next_delete_block == d1.blocks[a1.block].next_block
        a2 == IF at_end THEN Addr(next_delete_block, 0) ELSE a1
    IN  IF at_end /\ next_delete_block = INV
        THEN [d |-> d1, status |-> "FAILEDSTORE"]
        ELSE IF fp1 >= d1.blocks[cb].max_pages
        THEN IF left1 # 0
             THEN [d |-> d1, status |-> "FAILEDSTORE"]
             ELSE LET prev_block == d1.blocks[cb].prev_block
                      next_block == d1.blocks[cb].next_block
                      b1 == IF prev_block # INV
                            THEN [d1.blocks EXCEPT ![prev_block].next_block = next_block]
                            ELSE d1.blocks
                      b2 == IF next_block # INV
                            THEN [b1 EXCEPT ![next_block].prev_block = prev_block]
                            ELSE b1
                      d2 == flash_free_reclaim([d1 EXCEPT !.blocks = b2], cb).d
                  IN  DeleteLoop(d2, a2, cb, fp1, left1)
        ELSE DeleteLoop(d1, a2, cb, fp1, left1)

flash_object_delete(d, sid) ==
    LET addr == Addr(FLASH_GET_BLOCK(sid), FLASH_GET_PAGE(sid))
    IN  IF ~ValidAddr(d, addr)
        THEN [d |-> d, status |-> "FAILEDSTORE"]
        ELSE LET r == flash_data_read(d, addr, HdrSize)
                 object_hdr == HdrView(r.data)
             IN  IF r.status # "SUCCESS"
                 THEN [d |-> [d EXCEPT !.errs = @ + r.errs], status |-> r.status]
                 ELSE IF object_hdr.sid # sid
                 THEN [d |-> d, status |-> "FAILEDSTORE"]
                 ELSE DeleteLoop(d, addr, INV, 0, object_hdr.size)

\* ---- public API: what each handler computes ----
\* A result has the device d, the store record fs, the status returned, held
\* (the device lock is still held when the call ends or hangs) and the object
\* handed back to the caller; enqueue's also has first_block, the block of the
\* write address the object's sid is computed from.
\* The end of enqueue: w is what flash_object_write returned.
EnqueueDone(first_block, w) ==
    [d |-> w.d,
     fs |-> IF w.status = "SUCCESS" THEN [w.fs EXCEPT !.object_count = @ + 1] ELSE w.fs,
     held |-> (w.status = "HANG"), object |-> NoObject, first_block |-> first_block,
     status |-> w.status]

\* enqueue after the check for a first write block; al is what that check
\* left: the status and the block of flash_free_allocate when it was called.
EnqueueWrite(al, fs, handle, data1, data2) ==
    IF al.status # "SUCCESS"
    THEN \* return without bplib_os_unlock
         [d |-> al.d, fs |-> fs, held |-> TRUE, object |-> NoObject,
          first_block |-> al.block,
          status |-> IF al.status = "HANG" THEN "HANG" ELSE "FAILEDSTORE"]
    ELSE LET fs1 == [fs EXCEPT !.write_addr.block = al.block]
             fs2 == IF fs.read_addr.block = INV
                    THEN [fs1 EXCEPT !.read_addr = fs1.write_addr]
                    ELSE fs1
         IN  EnqueueDone(al.block, flash_object_write(al.d, fs2, handle, data1, data2))

bplib_store_flash_enqueue(d, fs, handle, data1, data2) ==
    EnqueueWrite(IF fs.write_addr.block = INV
                 THEN flash_free_allocate(d, fs.write_addr.block)
                 ELSE [d |-> d, status |-> "SUCCESS", block |-> fs.write_addr.block],
                 fs, handle, data1, data2)

\* What a call that read an object hands back: r is what flash_object_read
\* returned, fs the store record the call leaves.
ReadResult(d, fs, r) ==
    [d |-> [d EXCEPT !.errs = @ + r.errs], fs |-> fs, held |-> FALSE,
     object |-> r.object, status |-> r.status]

\* A dequeue that hands the object back and leaves the read cursor on it.
dequeue_keeps_cursor(d, r) == ReadResult(d, r.fs, r)

\* A dequeue that returns the status of the scan made after a failed read.
dequeue_returns_scan_status(d, fs1, r, sc) ==
    [d |-> [d EXCEPT !.errs = @ + r.errs + sc.errs],
     fs |-> [fs1 EXCEPT !.read_addr = sc.addr],
     held |-> (sc.status = "HANG"), object |-> NoObject, status |-> sc.status]

\* dequeue after a failed read: sc is what flash_object_scan returned for
\* the read address, which it is given by reference.
DequeueScanned(d, fs1, r, sc) ==
    [d |-> [d EXCEPT !.errs = @ + r.errs + sc.errs],
     fs |-> [fs1 EXCEPT !.read_addr = sc.addr],
     held |-> (sc.status = "HANG"), object |-> NoObject,
     status |-> IF sc.status = "HANG" THEN "HANG" ELSE r.status]

\* dequeue after flash_object_read returned r, having moved the read
\* address, which it is given by reference.
DequeueRead(d, r) ==
    LET fs1 == [r.fs EXCEPT !.read_addr = r.addr]
    IN  IF r.status # "SUCCESS"
        THEN DequeueScanned(d, fs1, r, flash_object_scan(d, r.addr))
        ELSE ReadResult(d, fs1, r)

\* A dequeue that reads at the read address without comparing it with the
\* write address.
dequeue_reads_when_empty(d, fs, handle) ==
    DequeueRead(d, flash_object_read(d, fs, handle, fs.read_addr))

bplib_store_flash_dequeue(d, fs, handle) ==
    IF fs.read_addr # fs.write_addr
    THEN DequeueRead(d, flash_object_read(d, fs, handle, fs.read_addr))
    ELSE [d |-> d, fs |-> fs, held |-> FALSE, object |-> NoObject, status |-> "TIMEOUT"]

\* A retrieve that hands flash_object_read the store's read address to advance.
retrieve_moves_cursor(d, r) == ReadResult(d, [r.fs EXCEPT !.read_addr = r.addr], r)

\* retrieve after flash_object_read returned r.
RetrieveRead(d, r) == ReadResult(d, r.fs, r)

bplib_store_flash_retrieve(d, fs, handle, sid) ==
    RetrieveRead(d, flash_object_read(d, fs, handle,
                                      Addr(FLASH_GET_BLOCK(sid), FLASH_GET_PAGE(sid))))

\* A release that unlocks the stage whatever the sid.
release_unlocks_always(d, fs, stage_sid, sid) ==
    [d |-> d, fs |-> [fs EXCEPT !.stage_locked = FALSE], held |-> FALSE,
     object |-> NoObject, status |-> IF stage_sid # sid THEN "FAILEDSTORE" ELSE "SUCCESS"]

\* stage_sid is the sid read through the stage's header view.
bplib_store_flash_release(d, fs, stage_sid, sid) ==
    IF stage_sid # sid
    THEN [d |-> d, fs |-> fs, held |-> FALSE, object |-> NoObject, status |-> "FAILEDSTORE"]
    ELSE [d |-> d, fs |-> [fs EXCEPT !.stage_locked = FALSE], held |-> FALSE,
          object |-> NoObject, status |-> "SUCCESS"]

\* A relinquish that counts the object out whatever flash_object_delete returns.
relinquish_counts_always(fs, r) ==
    [d |-> r.d, fs |-> [fs EXCEPT !.object_count = @ - 1],
     held |-> FALSE, object |-> NoObject, status |-> r.status]

\* relinquish after flash_object_delete returned r.
RelinquishDeleted(fs, r) ==
    [d |-> r.d,
     fs |-> IF r.status = "SUCCESS" THEN [fs EXCEPT !.object_count = @ - 1] ELSE fs,
     held |-> FALSE, object |-> NoObject, status |-> r.status]

bplib_store_flash_relinquish(d, fs, sid) ==
    RelinquishDeleted(fs, flash_object_delete(d, sid))

bplib_store_flash_getcount(fs) == fs.object_count

\* The loop of bplib_store_flash_stats that logs the bad blocks: acc is what
\* has been logged.  More than NumBlocks blocks logged means a block was
\* logged twice: the walk is in a cycle of next_block links and never ends.
RECURSIVE BadBlockLog(_, _, _)
BadBlockLog(d, block, acc) ==
    IF block = INV THEN [logged |-> acc, ends |-> TRUE]
    ELSE IF Len(acc) > NumBlocks THEN [logged |-> acc, ends |-> FALSE]
    ELSE BadBlockLog(d, d.blocks[block].next_block, Append(acc, block))

\* bplib_store_flash_stats(&stats, true, false): the counters copied and the
\* bad blocks logged.
bplib_store_flash_stats(d) ==
    [num_free_blocks |-> d.free.count, num_used_blocks |-> d.used,
     num_bad_blocks |-> d.bad.count, error_count |-> d.errs,
     bad |-> BadBlockLog(d, d.bad.out, << >>)]

\* A create that picks the last slot not in use.
create_takes_last_slot(stores) ==
    IF \E s \in Handles : ~stores[s].in_use
    THEN CHOOSE s \in Handles :
            ~stores[s].in_use /\ \A t \in Handles : t > s => stores[t].in_use
    ELSE -1

\* The slot bplib_store_flash_create picks: the first one not in use.
CreateSlot(stores) ==
    IF \E s \in Handles : ~stores[s].in_use
    THEN CHOOSE s \in Handles :
            ~stores[s].in_use /\ \A t \in Handles : t < s => stores[t].in_use
    ELSE -1

\* attr is the max_data_size supplied, or -1 when no attributes are given.
CreatedStore(attr) ==
    [in_use |-> TRUE,
     max_data_size |-> (IF attr = -1 THEN PageSize ELSE attr) + HdrSize,
     write_addr |-> Addr(INV, 0),
     read_addr |-> Addr(INV, 0),
     read_stage |-> << >>,
     stage_locked |-> FALSE,
     object_count |-> 0]

\* memset(flash_stores, 0, sizeof(flash_stores))
ZeroStore ==
    [in_use |-> FALSE, max_data_size |-> 0, write_addr |-> Addr(0, 0),
     read_addr |-> Addr(0, 0), read_stage |-> << >>, stage_locked |-> FALSE,
     object_count |-> 0]

\* What one iteration of the format loop leaves: r is what flash_free_reclaim
\* returned for the block.
Reclaimed(r, reclaimed_blocks) ==
    [d |-> r.d,
     reclaimed_blocks |-> IF r.status = "SUCCESS" THEN reclaimed_blocks + 1
                          ELSE reclaimed_blocks]

\* bplib_store_flash_init in FORMAT mode: reclaim blocks 0 .. n-1 in order,
\* counting the reclaims that return SUCCESS.
RECURSIVE FormatLoop(_, _)
FormatLoop(f, block) ==
    IF block >= NumBlocks THEN f
    ELSE FormatLoop(Reclaimed(flash_free_reclaim(f.d, block), f.reclaimed_blocks),
                    block + 1)

EmptyList == [out |-> INV, in |-> INV, count |-> 0]

\* The registry comes from malloc; reclaim writes every field of a record
\* before any is read, so the initial records are never observed.
\* drv is the driver init is given: its pages' contents and its faults.
RawDevice(drv) ==
    [blocks |-> [b \in Blocks |-> [next_block |-> INV, prev_block |-> INV,
                                   max_pages |-> PagesPerBlock, page_use |-> Pages]],
     free |-> EmptyList, bad |-> EmptyList, used |-> 0, errs |-> 0,
     flash |-> drv.flash, isbad |-> drv.isbad, efail |-> drv.efail, wfail |-> drv.wfail,
     rfail |-> drv.rfail]

\* A device that has never been written, reporting the blocks of isbad bad.
NewDriver(isbad) ==
    [flash |-> [b \in Blocks |-> ErasedBlock], isbad |-> isbad, efail |-> {},
     wfail |-> {}, rfail |-> {}]

\* An init that leaves the counters as the format loop left them.
init_keeps_counters(f) == f

\* The end of init ("Zero Counters"): f is what the format loop left.
InitDone(f) == [f EXCEPT !.d.errs = 0, !.d.used = 0]

\* The result has the device d and reclaimed_blocks, the value returned.
bplib_store_flash_init(drv) ==
    InitDone(FormatLoop([d |-> RawDevice(drv), reclaimed_blocks |-> 0], 0))

\* ---- state ----
VARIABLES
    flash_blocks,            \* the block control records
    flash_free_blocks,       \* the free list
    flash_bad_blocks,        \* the bad list
    flash_error_count,
    flash_used_block_count,
    flash_stores,            \* the store table
    flash_device_lock,       \* TRUE while the device lock is held
    driver,                  \* the driver's state: page contents and faults
    hist,                    \* what the callers have seen so far (per store, or of the free list)
    ret                      \* the last call and what it returned

vars == <<flash_blocks, flash_free_blocks, flash_bad_blocks, flash_error_count,
          flash_used_block_count, flash_stores, flash_device_lock, driver, hist, ret>>

Dev ==
    [blocks |-> flash_blocks, free |-> flash_free_blocks, bad |-> flash_bad_blocks,
     used |-> flash_used_block_count, errs |-> flash_error_count,
     flash |-> driver.flash, isbad |-> driver.isbad, efail |-> driver.efail,
     wfail |-> driver.wfail, rfail |-> driver.rfail]

SetDev(d) ==
    /\ flash_blocks' = d.blocks
    /\ flash_free_blocks' = d.free
    /\ flash_bad_blocks' = d.bad
    /\ flash_used_block_count' = d.used
    /\ flash_error_count' = d.errs
    /\ driver' = [flash |-> d.flash, isbad |-> d.isbad, efail |-> d.efail,
                  wfail |-> d.wfail, rfail |-> d.rfail]

\* enq: payloads of the enqueues that returned SUCCESS, in order
\* sids: the sid each of them wrote into its object's header
\* deq: payloads of the dequeues that returned SUCCESS, in order
\* natt: enqueue calls made; nrel: relinquishes that returned SUCCESS
\* out: sids of objects dequeued and not relinquished since
\* fresh: the last enqueue returned SUCCESS on a store whose cursors were
\*        equal, whose stage was unlocked and whose objects had all been dequeued
\* rel: positions in enq of the objects a relinquish returned SUCCESS for
\* early: those of rel relinquished before a dequeue had returned them
NoHist ==
    [enq |-> << >>, sids |-> << >>, deq |-> << >>, natt |-> 0, nrel |-> 0, out |-> {},
     fresh |-> FALSE, rel |-> {}, early |-> {}]

\* The store holds nothing to dequeue, as the code and as its callers see it.
Drained(h) ==
    /\ \/ flash_stores[h].read_addr = flash_stores[h].write_addr
       \/ flash_stores[h].read_addr.block = INV
    /\ Len(hist[h].deq) = Len(hist[h].enq)

\* The last enqueue of store h that was given the sid.
LastAt(h, sid) ==
    CHOOSE i \in 1 .. Len(hist[h].sids) :
        /\ hist[h].sids[i] = sid
        /\ \A j \in 1 .. Len(hist[h].sids) : hist[h].sids[j] = sid => j <= i

\* The sids of the objects of store h enqueued and not relinquished.
Live(h) == {hist[h].sids[i] : i \in (1 .. Len(hist[h].sids)) \ hist[h].rel}

\* Callers do not manufacture sids: they pass those of the store's objects.
Known(h) == {hist[h].sids[i] : i \in 1 .. Len(hist[h].sids)}

\* The position in enq of the object a sid designates: none when the sid
\* was written by an enqueue that did not return SUCCESS.
Position(h, sid) == IF sid \in Known(h) THEN {LastAt(h, sid)} ELSE {}

\* The object a successful dequeue or retrieve returns is a pointer into the
\* store's read stage: ObjectOf(flash_stores[h].read_stage).
\* ret is the last call, the store it was made on, the status it returned
\* and, for init and for the block-level calls, the value it handed back.
NoRet == [op |-> "init", h |-> -1, status |-> "SUCCESS", val |-> 0]

Ret(op, h, r) == [op |-> op, h |-> h, status |-> r.status, val |-> 0]

\* The payload of the t-th enqueue call on store h, n units long.
Payload(h, t, n) == [i \in 1 .. n |-> DataUnit(100 * h + 10 * t + i)]

Sizes == 0 .. (MaxAttr + 1)

\* The state a handler's result leaves behind.
Commit(h, r) ==
    /\ SetDev(r.d)
    /\ flash_stores' = [flash_stores EXCEPT ![h] = r.fs]
    /\ flash_device_lock' = r.held

NumFaults ==
    Cardinality(driver.isbad) + Cardinality(driver.efail) + Cardinality(driver.wfail)

\* After init(FORMAT) on a device reporting the blocks of isbad bad, and one
\* create for each slot of H, with the attributes attrs gives it.
InitStores(isbad, H, attrs) ==
    /\ \E d \in {bplib_store_flash_init(NewDriver(isbad)).d} :
           /\ flash_blocks = d.blocks
           /\ flash_free_blocks = d.free
           /\ flash_bad_blocks = d.bad
           /\ flash_used_block_count = d.used
           /\ flash_error_count = d.errs
           /\ driver = [flash |-> d.flash, isbad |-> d.isbad, efail |-> d.efail,
                        wfail |-> d.wfail, rfail |-> d.rfail]
    /\ flash_stores = [s \in Handles |-> IF s \in H THEN CreatedStore(attrs[s])
                                         ELSE ZeroStore]
    /\ flash_device_lock = FALSE
    /\ hist = [s \in Handles |-> NoHist]
    /\ ret = [NoRet EXCEPT !.op = "create"]

\* ---- actions ----
\* The slot a create leaves behind when a stage could not be allocated:
\* attributes and cursors are written, in_use and object_count are not.
CreateNoMemory(store, attr) ==
    [CreatedStore(attr) EXCEPT !.in_use = store.in_use,
                               !.object_count = store.object_count]

\* mem: malloc returns both stages.  ret.val is the return statement taken:
\* 0 the handle, 1 no slot left, 2 invalid attributes, 3 no stage memory.
Create(attr, mem) ==
    /\ \E s \in {CreateSlot(flash_stores)} :
           IF s = -1 \/ (attr # -1 /\ attr < PageSize)
           THEN /\ UNCHANGED <<flash_stores, hist>>
                /\ ret' = [NoRet EXCEPT !.op = "create", !.status = "INVALID_HANDLE",
                                        !.val = IF s = -1 THEN 1 ELSE 2]
           ELSE IF ~mem
           THEN /\ flash_stores' = [flash_stores EXCEPT
                                       ![s] = CreateNoMemory(flash_stores[s], attr)]
                /\ UNCHANGED hist
                /\ ret' = [NoRet EXCEPT !.op = "create", !.status = "INVALID_HANDLE",
                                        !.val = 3]
           ELSE /\ flash_stores' = [flash_stores EXCEPT ![s] = CreatedStore(attr)]
                /\ hist' = [hist EXCEPT ![s] = NoHist]
                /\ ret' = [NoRet EXCEPT !.op = "create", !.h = s]
    /\ UNCHANGED <<flash_blocks, flash_free_blocks, flash_bad_blocks, flash_error_count,
                   flash_used_block_count, flash_device_lock, driver>>

Destroy(h) ==
    /\ flash_stores[h].in_use
    /\ flash_stores' = [flash_stores EXCEPT ![h].in_use = FALSE]
    /\ ret' = [NoRet EXCEPT !.op = "destroy", !.h = h]
    /\ UNCHANGED <<flash_blocks, flash_free_blocks, flash_bad_blocks, flash_error_count,
                   flash_used_block_count, flash_device_lock, driver, hist>>

Enqueue(h, n, k) ==
    /\ flash_stores[h].in_use
    /\ ~flash_device_lock
    /\ hist[h].natt < MaxEnq
    /\ k <= n
    /\ \E data \in {Payload(h, hist[h].natt + 1, n)} :
       \E r \in {bplib_store_flash_enqueue(Dev, flash_stores[h], h,
                                           SubSeq(data, 1, k), SubSeq(data, k + 1, n))} :
           /\ Commit(h, r)
           /\ hist' = IF r.status = "SUCCESS"
                      THEN [hist EXCEPT
                              ![h].natt = @ + 1,
                              ![h].fresh = Drained(h) /\ ~flash_stores[h].stage_locked,
                              ![h].enq = Append(@, data),
                              ![h].sids = Append(@, FLASH_GET_SID(
                                              [flash_stores[h].write_addr EXCEPT
                                                 !.block = r.first_block]))]
                      ELSE [hist EXCEPT ![h].natt = @ + 1, ![h].fresh = FALSE]
           /\ ret' = Ret("enqueue", h, r)

Dequeue(h) ==
    /\ flash_stores[h].in_use
    /\ ~flash_device_lock
    /\ Len(hist[h].deq) < MaxDeq
    /\ \E r \in {bplib_store_flash_dequeue(Dev, flash_stores[h], h)} :
           /\ Commit(h, r)
           /\ hist' = IF r.status = "SUCCESS"
                      THEN [hist EXCEPT ![h].deq = Append(@, r.object.data),
                                        ![h].out = @ \cup {r.object.sid}]
                      ELSE hist
           /\ ret' = Ret("dequeue", h, r)

Retrieve(h, sid) ==
    /\ flash_stores[h].in_use
    /\ ~flash_device_lock
    /\ \E r \in {bplib_store_flash_retrieve(Dev, flash_stores[h], h, sid)} :
           /\ Commit(h, r)
           /\ ret' = Ret("retrieve", h, r)
    /\ UNCHANGED hist

\* A stage no read has filled yet holds what malloc left there: the sid
\* compared is then any value.
Release(h, sid) ==
    /\ flash_stores[h].in_use
    /\ \E stage_sid \in IF Len(flash_stores[h].read_stage) = 0
                        THEN {sid, -1}
                        ELSE {HdrView(flash_stores[h].read_stage).sid} :
         \E r \in {bplib_store_flash_release(Dev, flash_stores[h], stage_sid, sid)} :
             /\ flash_stores' = [flash_stores EXCEPT ![h] = r.fs]
             /\ ret' = Ret("release", h, r)
    /\ UNCHANGED <<flash_blocks, flash_free_blocks, flash_bad_blocks, flash_error_count,
                   flash_used_block_count, flash_device_lock, driver, hist>>

Relinquish(h, sid) ==
    /\ flash_stores[h].in_use
    /\ ~flash_device_lock
    /\ hist[h].nrel < MaxRel
    /\ \E r \in {bplib_store_flash_relinquish(Dev, flash_stores[h], sid)} :
           /\ Commit(h, r)
           /\ hist' = IF r.status = "SUCCESS"
                      THEN [hist EXCEPT ![h].nrel = @ + 1, ![h].out = @ \ {sid},
                                        ![h].rel = @ \cup Position(h, sid),
                                        ![h].early = IF sid \in hist[h].out THEN @
                                                     ELSE @ \cup Position(h, sid)]
                      ELSE hist
           /\ ret' = Ret("relinquish", h, r)

\* The device degrades: a block of bad turns bad, the erase of a block of
\* erase starts to fail, or the write of a page of write starts to fail.
DegradeIn(bad, erase, write) ==
    /\ NumFaults < MaxFaults
    /\ \/ \E b \in bad \ driver.isbad : driver' = [driver EXCEPT !.isbad = @ \cup {b}]
       \/ \E b \in erase \ driver.efail : driver' = [driver EXCEPT !.efail = @ \cup {b}]
       \/ \E f \in write \ driver.wfail : driver' = [driver EXCEPT !.wfail = @ \cup {f}]
    /\ UNCHANGED <<flash_blocks, flash_free_blocks, flash_bad_blocks, flash_error_count,
                   flash_used_block_count, flash_stores, flash_device_lock, hist, ret>>

Degrade == DegradeIn(Blocks, Blocks, Blocks \X Pages)

\* Only writes fail, and only at a page index above 0.
DegradeWrite == DegradeIn({}, {}, Blocks \X (Pages \ {0}))

\* A written page loses its contents and reads as erased from now on.
PageLoss ==
    /\ \E b \in Blocks, pg \in Pages :
          /\ Len(driver.flash[b][pg]) > 0
          /\ driver' = [driver EXCEPT !.flash[b][pg] = << >>]
    /\ UNCHANGED <<flash_blocks, flash_free_blocks, flash_bad_blocks, flash_error_count,
                   flash_used_block_count, flash_stores, flash_device_lock, hist, ret>>

\* From now on every page write fails; the blocks still erase and are not
\* reported bad.
WearOut ==
    /\ driver.wfail # Blocks \X Pages
    /\ driver' = [driver EXCEPT !.wfail = Blocks \X Pages]
    /\ UNCHANGED <<flash_blocks, flash_free_blocks, flash_bad_blocks, flash_error_count,
                   flash_used_block_count, flash_stores, flash_device_lock, hist, ret>>

\* The read of a page starts to fail, as long as fewer than FrameFaults do.
ReadDegrade ==
    /\ Cardinality(driver.rfail) < FrameFaults
    /\ \E f \in (Blocks \X Pages) \ driver.rfail :
           driver' = [driver EXCEPT !.rfail = @ \cup {f}]
    /\ UNCHANGED <<flash_blocks, flash_free_blocks, flash_bad_blocks, flash_error_count,
                   flash_used_block_count, flash_stores, flash_device_lock, hist, ret>>

\* ---- specifications ----
StageSid(h) == HdrView(flash_stores[h].read_stage).sid

\* Any call on the stores of H, with sids the callers hold.
Calls(H, S, cap) ==
    \/ \E h \in H, n \in S : \E k \in {0, 1, n} :
            hist[h].natt < cap /\ Enqueue(h, n, k)
    \/ \E h \in H : Len(hist[h].deq) < cap /\ Dequeue(h)
    \/ \E h \in H : \E sid \in Known(h) : Retrieve(h, sid)
    \/ \E h \in H : \E sid \in Known(h) : Release(h, sid)
    \/ \E h \in H : \E sid \in Known(h) : hist[h].nrel < cap /\ Relinquish(h, sid)

\* The calls of a caller that releases each dequeued object before the next
\* dequeue and relinquishes only objects it has dequeued.
OrderlyCalls(H, S, cap) ==
    \/ \E h \in H, n \in S : \E k \in {0, 1, n} :
            hist[h].natt < cap /\ Enqueue(h, n, k)
    \/ \E h \in H :
            ~flash_stores[h].stage_locked /\ Len(hist[h].deq) < cap /\ Dequeue(h)
    \/ \E h \in H : flash_stores[h].stage_locked /\ Release(h, StageSid(h))
    \/ \E h \in H : \E sid \in hist[h].out : hist[h].nrel < cap /\ Relinquish(h, sid)

\* One store, any calls, a device that degrades.
GenCap == 2
Init == \E isbad \in SUBSET Blocks :
            /\ Cardinality(isbad) <= MaxFaults
            /\ InitStores(isbad, {0}, [s \in Handles |-> -1])
Next == Calls({0}, 0 .. (PageSize + 1), GenCap) \/ Degrade
Spec == Init /\ [][Next]_vars

\* One store, an orderly caller, a driver that reports no failure.
InitFifo == \E attr \in {-1, MaxAttr} : InitStores({}, {0}, [s \in Handles |-> attr])
NextFifo == OrderlyCalls({0}, Sizes, MaxEnq)
SpecFifo == InitFifo /\ [][NextFifo]_vars
\* One store, an orderly caller, a device that degrades.
FaultCap == 2
InitFault == \E isbad \in SUBSET Blocks, attr \in {-1, MaxAttr} :
                /\ Cardinality(isbad) <= MaxFaults
                /\ InitStores(isbad, {0}, [s \in Handles |-> attr])
NextFault == OrderlyCalls({0}, Sizes, FaultCap) \/ Degrade
SpecFault == InitFault /\ [][NextFault]_vars

\* One store, an orderly caller, a device whose page writes start to fail at
\* page indexes above 0.
WriteFailCap == 3
\* (the initial state: init(FORMAT) on a device of good blocks, one store of
\* default attributes created)
InitOne == InitStores({}, {0}, [s \in Handles |-> -1])
NextWriteFail == OrderlyCalls({0}, 0 .. (PageSize + 1), WriteFailCap) \/ DegradeWrite
SpecWriteFail == InitOne /\ [][NextWriteFail]_vars

\* Two stores, orderly callers, a driver that reports no failure.
TwoCap == 2
InitTwo == InitStores({}, {0, 1}, [s \in Handles |-> -1])
NextTwo == OrderlyCalls({0, 1}, 0 .. (PageSize + 1), TwoCap)
SpecTwo == InitTwo /\ [][NextTwo]_vars

\* One store, an orderly caller that also retrieves, while the stage is
\* unlocked, objects it has dequeued and not relinquished; a device that
\* degrades.
RetrieveCap == 2
OrderlyRetrieve(H) ==
    \E h \in H : \E sid \in hist[h].out :
        ~flash_stores[h].stage_locked /\ Retrieve(h, sid)
NextRetrieve ==
    OrderlyCalls({0}, 0 .. (PageSize + 1), RetrieveCap) \/ OrderlyRetrieve({0}) \/ Degrade
SpecRetrieve == InitOne /\ [][NextRetrieve]_vars

\* One store, a driver that reports no failure, a caller that is orderly
\* but for dequeues it issues while the object of the last one is still
\* borrowed.
LockedCap == 3
NextLocked ==
    \/ OrderlyCalls({0}, 0 .. (PageSize + 1), LockedCap)
    \/ flash_stores[0].stage_locked /\ Len(hist[0].deq) < LockedCap /\ Dequeue(0)
SpecLocked == InitOne /\ [][NextLocked]_vars

\* One store, an orderly caller, a device on which every page write starts
\* to fail at some time.
WornCap == 3
NextWorn == OrderlyCalls({0}, 0 .. (PageSize + 1), WornCap) \/ WearOut
SpecWorn == InitOne /\ [][NextWorn]_vars

\* One store, an orderly caller, a driver that reports no failure, a device
\* whose written pages can lose their contents.
ScanCap == 3
NextScan == OrderlyCalls({0}, 0 .. (PageSize + 1), ScanCap) \/ PageLoss
SpecScan == InitOne /\ [][NextScan]_vars

\* One store, a driver that reports no failure, a caller that releases each
\* dequeued object before it relinquishes it or dequeues the next.
ReclaimCap == 3
NextReclaim ==
    \/ \E n \in 0 .. (PageSize + 1) : \E k \in {0, 1, n} :
            hist[0].natt < ReclaimCap /\ Enqueue(0, n, k)
    \/ ~flash_stores[0].stage_locked /\ Len(hist[0].deq) < ReclaimCap /\ Dequeue(0)
    \/ flash_stores[0].stage_locked /\ Release(0, StageSid(0))
    \/ \E sid \in hist[0].out :
            ~flash_stores[0].stage_locked /\ hist[0].nrel < ReclaimCap /\ Relinquish(0, sid)
SpecReclaim == InitOne /\ [][NextReclaim]_vars

\* One store, a driver that reports no failure, a caller that relinquishes
\* objects it has enqueued and not relinquished, dequeued or not.
EarlyCap == 3
NextEarly ==
    \/ \E n \in Sizes : \E k \in {0, 1, n} :
            hist[0].natt < EarlyCap /\ Enqueue(0, n, k)
    \/ ~flash_stores[0].stage_locked /\ Len(hist[0].deq) < EarlyCap /\ Dequeue(0)
    \/ flash_stores[0].stage_locked /\ Release(0, StageSid(0))
    \/ \E sid \in Live(0) : hist[0].nrel < EarlyCap /\ Relinquish(0, sid)
SpecEarly == InitFifo /\ [][NextEarly]_vars

\* The store table driven as the unit test drives it: creates with no
\* attributes, with attributes below the page size and with valid ones,
\* malloc failing or not, destroys of the stores in use, and enqueues on
\* them, so that a slot taken again has held objects.
SlotCap == 1
InitSlots == InitStores({}, {}, [s \in Handles |-> -1])
NextSlots ==
    \/ \E attr \in {-1, PageSize - 1, PageSize, MaxAttr} : \E mem \in BOOLEAN :
            Create(attr, mem)
    \/ \E h \in Handles : Destroy(h)
    \/ \E h \in Handles : hist[h].natt < SlotCap /\ Enqueue(h, 1, 0)
SpecSlots == InitSlots /\ [][NextSlots]_vars

\* One store, any calls with the sids the caller was given, the stage locked
\* or not, on a device whose page reads start to fail, until FrameErrs
\* errors have been counted.
FrameCap == 2
FrameErrs == 2
NextFrame ==
    \/ \E n \in 0 .. (PageSize + 1) : \E k \in {0, 1, n} :
            hist[0].natt < FrameCap /\ Enqueue(0, n, k)
    \/ flash_error_count < FrameErrs /\ Len(hist[0].deq) < FrameCap /\ Dequeue(0)
    \/ \E sid \in Known(0) : flash_error_count < FrameErrs /\ Retrieve(0, sid)
    \/ \E sid \in Known(0) : Release(0, sid)
    \/ \E sid \in Known(0) :
            flash_error_count < FrameErrs /\ hist[0].nrel < FrameCap /\ Relinquish(0, sid)
    \/ ReadDegrade
SpecFrame == InitOne /\ [][NextFrame]_vars

\* ---- the block registry driven directly, as the unit test drives it ----
\* In these specifications no store exists and hist is the history of the
\* free list: reclaimed, the blocks put on the free list since init, in
\* order; allocated, the blocks flash_free_allocate handed out, in order;
\* held, the blocks handed out and not reclaimed since; inits, the init
\* calls made; was_held, the blocks that were handed out when the last init
\* was called; failed, the blocks whose erase has failed under
\* flash_free_allocate since the last init.
\* The candidates whose erase fails in a flash_free_allocate that starts
\* with block b at the out end of the free list.
RECURSIVE EraseFailures(_, _, _)
EraseFailures(d, b, fuel) ==
    IF b \notin Blocks \/ fuel = 0 \/ DriverEraseOk(d, b) THEN {}
    ELSE {b} \cup EraseFailures(d, d.blocks[b].next_block, fuel - 1)

FormatState(isbad, inits, drv) ==
    \E r \in {bplib_store_flash_init([drv EXCEPT !.isbad = isbad])} :
        /\ flash_blocks = r.d.blocks
        /\ flash_free_blocks = r.d.free
        /\ flash_bad_blocks = r.d.bad
        /\ flash_used_block_count = r.d.used
        /\ flash_error_count = r.d.errs
        /\ driver = [drv EXCEPT !.isbad = isbad]
        /\ flash_stores = [s \in Handles |-> ZeroStore]
        /\ flash_device_lock = FALSE
        /\ hist = [reclaimed |-> SelectSeq([i \in 1 .. NumBlocks |-> i - 1],
                                           LAMBDA b : b \notin isbad),
                   allocated |-> << >>, held |-> {}, inits |-> inits, was_held |-> {},
                   failed |-> {}]
        /\ ret = [NoRet EXCEPT !.val = r.reclaimed_blocks]

\* bplib_store_flash_init(driver, BP_FLASH_INIT_FORMAT) called again, with a
\* driver that reports the blocks of isbad bad.
Format(isbad) ==
    /\ hist.inits < MaxInits
    /\ \E r \in {bplib_store_flash_init([driver EXCEPT !.isbad = isbad])} :
           /\ SetDev(r.d)
           /\ ret' = [NoRet EXCEPT !.val = r.reclaimed_blocks]
    /\ flash_stores' = [s \in Handles |-> ZeroStore]
    /\ flash_device_lock' = FALSE
    /\ hist' = [reclaimed |-> SelectSeq([i \in 1 .. NumBlocks |-> i - 1],
                                        LAMBDA b : b \notin isbad),
                allocated |-> << >>, held |-> {}, inits |-> hist.inits + 1,
                was_held |-> hist.held, failed |-> {}]

\* flash_free_allocate(&block)
Allocate ==
    /\ Len(hist.allocated) < MaxAllocs
    /\ \E r \in {flash_free_allocate(Dev, INV)} :
           /\ SetDev(r.d)
           /\ \E f \in {EraseFailures(Dev, flash_free_blocks.out, NumBlocks)} :
                  hist' = IF r.status = "SUCCESS"
                          THEN [hist EXCEPT !.allocated = Append(@, r.block),
                                            !.held = @ \cup {r.block},
                                            !.failed = @ \cup f]
                          ELSE [hist EXCEPT !.failed = @ \cup f]
           /\ ret' = [op |-> "allocate", h |-> -1, status |-> r.status, val |-> r.block]
    /\ UNCHANGED <<flash_stores, flash_device_lock>>

\* flash_free_reclaim(block) of a block that was handed out
Reclaim(block) ==
    /\ block \in hist.held
    /\ \E r \in {flash_free_reclaim(Dev, block)} :
           /\ SetDev(r.d)
           /\ hist' = [hist EXCEPT !.reclaimed = IF r.status = "SUCCESS"
                                                 THEN Append(@, block) ELSE @,
                                   !.held = @ \ {block}]
           /\ ret' = [op |-> "reclaim", h |-> -1, status |-> r.status, val |-> block]
    /\ UNCHANGED <<flash_stores, flash_device_lock>>

\* init(FORMAT) on a device with any set of bad blocks, then allocates,
\* reclaims of allocated blocks in any order, and further inits; the
\* driver's erases succeed.
InitBlocks == \E isbad \in SUBSET Blocks : FormatState(isbad, 1, NewDriver({}))
NextBlocks ==
    \/ \E isbad \in SUBSET Blocks : Format(isbad)
    \/ Allocate
    \/ \E b \in Blocks : Reclaim(b)
SpecBlocks == InitBlocks /\ [][NextBlocks]_vars

\* The erases of the blocks of S fail from now on, those of the others succeed.
EraseFaults(S) ==
    /\ driver.efail # S
    /\ driver' = [driver EXCEPT !.efail = S]
    /\ UNCHANGED <<flash_blocks, flash_free_blocks, flash_bad_blocks, flash_error_count,
                   flash_used_block_count, flash_stores, flash_device_lock, hist, ret>>

\* init(FORMAT) on a device with any set of bad blocks, then allocates and
\* reclaims of allocated blocks in any order, while the set of blocks whose
\* erase fails changes in any way.
EraseAllocs == 4
NextErase ==
    \/ Len(hist.allocated) < EraseAllocs /\ Allocate
    \/ \E b \in Blocks : Reclaim(b)
    \/ \E S \in SUBSET Blocks : EraseFaults(S)
SpecErase == InitBlocks /\ [][NextErase]_vars

\* ---- the page-level engine driven directly, as test_3 drives it ----
\* hist has the fields of the free list's history and, of the caller:
\* writes, the flash_data_write calls made; start and data, the arguments of
\* the last of them; wstatus, what it returned; addr, the address it left in
\* *addr; read, what the flash_data_read that followed it left.
NoAddr == Addr(INV, 0)
NoRead == [addr |-> NoAddr, data |-> << >>, status |-> "NONE", errs |-> 0]

\* test_data of the t-th write, n bytes of it.
TestData(t, n) == Payload(0, t, n)

DataSizes == 0 .. (PagesPerBlock * PageSize + 1)
DataCap == 2
DataAllocs == 3

\* The addresses the caller writes from: a page of a block it was handed
\* and has not written, or the address the last write left.
StartAddrs ==
    {Addr(b, p) : b \in {x \in hist.held : driver.flash[x] = ErasedBlock}, p \in Pages}
    \cup (IF hist.writes > 0 THEN {hist.addr} ELSE {})

InitData ==
    \E isbad \in {{}} :
        \E r \in {bplib_store_flash_init(NewDriver(isbad))} :
            /\ flash_blocks = r.d.blocks
            /\ flash_free_blocks = r.d.free
            /\ flash_bad_blocks = r.d.bad
            /\ flash_used_block_count = r.d.used
            /\ flash_error_count = r.d.errs
            /\ driver = NewDriver(isbad)
            /\ flash_stores = [s \in Handles |-> ZeroStore]
            /\ flash_device_lock = FALSE
            /\ hist = [reclaimed |-> SelectSeq([i \in 1 .. NumBlocks |-> i - 1],
                                               LAMBDA b : b \notin isbad),
                       allocated |-> << >>, held |-> {}, inits |-> 1, was_held |-> {},
                       failed |-> {},
                       writes |-> 0, start |-> NoAddr, data |-> << >>,
                       wstatus |-> "NONE", addr |-> NoAddr, read |-> NoRead]
            /\ ret = [NoRet EXCEPT !.val = r.reclaimed_blocks]

\* status = flash_data_write(&addr, test_data, n) with addr set to start
DataWrite(start, n) ==
    /\ hist.writes < DataCap
    /\ \E r \in {flash_data_write(Dev, start, TestData(hist.writes, n))} :
           /\ SetDev(r.d)
           /\ hist' = [hist EXCEPT !.writes = @ + 1, !.start = start,
                                   !.data = TestData(hist.writes, n),
                                   !.wstatus = r.status, !.addr = r.addr,
                                   !.read = NoRead]
           /\ ret' = [op |-> "data_write", h |-> -1, status |-> r.status, val |-> n]
    /\ UNCHANGED <<flash_stores, flash_device_lock>>

\* status = flash_data_read(&addr, read_data, n) with addr set back to the
\* address the last write started from
DataRead ==
    /\ hist.writes > 0
    /\ hist.read = NoRead
    /\ \E r \in {flash_data_read(Dev, hist.start, Len(hist.data))} :
           /\ hist' = [hist EXCEPT !.read = r]
           /\ flash_error_count' = flash_error_count + r.errs
           /\ ret' = [op |-> "data_read", h |-> -1, status |-> r.status,
                      val |-> Len(hist.data)]
    /\ UNCHANGED <<flash_blocks, flash_free_blocks, flash_bad_blocks,
                   flash_used_block_count, flash_stores, flash_device_lock, driver>>

\* init(FORMAT) on a device with no bad block and a driver whose erases,
\* writes and reads all succeed; then allocates, reclaims of blocks
\* handed out and never written, writes and the read of the last write.
NextData ==
    \/ Len(hist.allocated) < DataAllocs /\ Allocate
    \/ \E b \in Blocks : driver.flash[b] = ErasedBlock /\ b # hist.addr.block /\ Reclaim(b)
    \/ \E start \in StartAddrs, n \in DataSizes : DataWrite(start, n)
    \/ DataRead
SpecData == InitData /\ [][NextData]_vars

\* ---- properties ----
IsPrefix(s, t) == Len(s) <= Len(t) /\ SubSeq(t, 1, Len(s)) = s

\* The blocks met from block b along the links next (next_block or
\* prev_block), up to and including block last.
RECURSIVE Walk(_, _, _, _)
Walk(next, b, last, seen) ==
    IF b \notin Blocks \/ b \in seen THEN seen
    ELSE IF b = last THEN seen \cup {b}
    ELSE Walk(next, next[b], last, seen \cup {b})

\* The blocks linked into list l by the links of the registry blocks, from
\* its out end to its in end.
ListIn(blocks, l) ==
    Walk([b \in Blocks |-> blocks[b].next_block], l.out, l.in, {})

\* The blocks linked into a list, from its out end to its in end.
ListBlocks(l) ==
    Walk([b \in Blocks |-> flash_blocks[b].next_block], l.out, l.in, {})

\* A store's used chain: the blocks reachable from write_addr through
\* prev_block.
UsedChain(h) ==
    IF flash_stores[h].in_use
    THEN Walk([b \in Blocks |-> flash_blocks[b].prev_block],
              flash_stores[h].write_addr.block, INV, {})
    ELSE {}

\* C1: on a single store and a driver reporting no failures, with each
\* dequeued object released before the next dequeue, the k-th successful
\* dequeue returns the payload of the k-th successful enqueue: the payloads
\* dequeued so far are, in order, the first payloads enqueued.
Fifo == IsPrefix(hist[0].deq, hist[0].enq)

\* As many objects of several pages each as the caller may dequeue have been
\* dequeued in order, more pages in all than the device has: the later ones
\* were written into blocks reclaimed from the earlier ones.
FifoWitness ==
    /\ Len(hist[0].deq) = MaxDeq
    /\ hist[0].nrel >= 2
    /\ \A i \in 1 .. Len(hist[0].deq) : HdrSize + Len(hist[0].deq[i]) > PageSize
    /\ 2 * Len(hist[0].deq) > NumBlocks * PagesPerBlock
\* The step is an enqueue on store h.
EnqueueStep(h) == hist'[h].natt = hist[h].natt + 1

\* The step is a dequeue on store h.
DequeueStep(h) == ret'.op = "dequeue" /\ ret'.h = h /\ ret' # ret

\* C2: whatever the driver's state, when an enqueue returns SUCCESS on a
\* store with an unlocked stage and nothing left to dequeue, the dequeue that
\* follows it returns SUCCESS with the handle, the size and the payload of
\* the object just enqueued.
WriteThenRead ==
    [][\A h \in Handles :
         (hist[h].fresh /\ ret.op = "enqueue" /\ ret.h = h /\ DequeueStep(h))
         => /\ ret'.status = "SUCCESS"
            /\ ObjectOf(flash_stores'[h].read_stage).handle = h
            /\ ObjectOf(flash_stores'[h].read_stage).size =
                   Len(hist[h].enq[Len(hist[h].enq)])
            /\ ObjectOf(flash_stores'[h].read_stage).data =
                   hist[h].enq[Len(hist[h].enq)]]_vars
\* C3: when page writes fail only at page indexes above 0, the failing block
\* stays in the chain and its replacement follows it, so the payloads
\* dequeued are, in order, the first payloads enqueued: no object enqueued
\* before or after the failure is skipped or reordered.
WriteFailureTolerance ==
    \A h \in Handles :
        (driver.isbad = {} /\ driver.efail = {} /\ \A f \in driver.wfail : f[2] > 0)
        => IsPrefix(hist[h].deq, hist[h].enq)
\* C4: the free list, the bad list and the stores' used chains share no
\* block; in particular no block linked into the free list is part of a
\* store's chain or designated by its read_addr or write_addr, so allocate
\* never hands out a block a store is using.
FreeBlocksNotInUse ==
    \A h \in Handles :
        flash_stores[h].in_use
        => ListBlocks(flash_free_blocks)
              \cap (UsedChain(h) \cup {flash_stores[h].read_addr.block,
                                       flash_stores[h].write_addr.block}) = {}
\* C5: in every state reachable through any calls and any driver outcomes,
\* free-list count + bad-list count + used block count = number of blocks.
BlockCountSum ==
    flash_free_blocks.count + flash_bad_blocks.count + flash_used_block_count = NumBlocks

\* An erase failed under an enqueue that then succeeded on another block, and
\* a relinquish has given a block back: all three counters have moved.
BlockCountSumWitness ==
    /\ flash_bad_blocks.count >= 1
    /\ flash_error_count >= 1
    /\ flash_used_block_count >= 1
    /\ hist[0].nrel >= 1
    /\ flash_free_blocks.count >= 1
    /\ driver.isbad = {}
    /\ flash_free_blocks.in # NumBlocks - 1
\* C8: after enqueue(d), a dequeue that returned the object with its sid and
\* release(sid), every retrieve(sid) made while the stage is unlocked and
\* the object is not relinquished returns SUCCESS with the payload, the size
\* and the handle of d.
RetrieveIdempotence ==
    [][\A h \in Handles : \A sid \in hist[h].out :
         (~flash_stores[h].stage_locked /\ Retrieve(h, sid))
         => /\ ret'.status = "SUCCESS"
            /\ ObjectOf(flash_stores'[h].read_stage).data = hist[h].enq[LastAt(h, sid)]
            /\ ObjectOf(flash_stores'[h].read_stage).size
                  = Len(hist[h].enq[LastAt(h, sid)])
            /\ ObjectOf(flash_stores'[h].read_stage).handle = h]_vars

\* C9: for each store, getcount returns the number of enqueues that
\* returned SUCCESS less the number of relinquishes that returned SUCCESS;
\* dequeue, retrieve, release and failed calls leave it unchanged.
CountLaw ==
    \A h \in Handles :
        flash_stores[h].in_use
        => bplib_store_flash_getcount(flash_stores[h])
              = Len(hist[h].enq) - hist[h].nrel

\* Two enqueues and a relinquish have succeeded and the last call failed.
CountLawWitness ==
    /\ Len(hist[0].enq) = 2
    /\ hist[0].nrel = 1
    /\ ret.op \in {"relinquish", "dequeue", "retrieve", "enqueue"}
    /\ ret.status \notin {"SUCCESS", "HANG"}
    /\ bplib_store_flash_getcount(flash_stores[0]) = 1
\* C6: two stores on a failure-free device do not interfere: the first
\* block allocated to a store's chain has no predecessor (prev_block is
\* invalid), a call on another store leaves the next_block/prev_block links
\* of the blocks in a store's chain unchanged, and each store dequeues its
\* own objects in its enqueue order.
StoresDoNotInterfere ==
    [][\A h \in Handles :
         /\ (/\ flash_stores[h].write_addr.block = INV
             /\ EnqueueStep(h)
             /\ ret'.status = "SUCCESS")
            => flash_blocks'[FLASH_GET_BLOCK(hist'[h].sids[Len(hist'[h].sids)])].prev_block
                  = INV
         /\ (flash_stores[h].in_use /\ ret'.h # h)
            => \A b \in UsedChain(h) :
                  /\ flash_blocks'[b].next_block = flash_blocks[b].next_block
                  /\ flash_blocks'[b].prev_block = flash_blocks[b].prev_block
         /\ IsPrefix(hist'[h].deq, hist'[h].enq)]_vars

\* C7: enqueue, dequeue, retrieve and relinquish release the device lock on
\* every return path: whenever the last call has returned, the lock is free.
LockReleasedOnReturn == ret.status # "HANG" => ~flash_device_lock

\* C10: when the free list is empty, an enqueue on any store, whether or not
\* it owns a write block, returns STORE_FULL and leaves the store's
\* write_addr and read_addr unchanged.
FullReturnsStoreFull ==
    [][\A h \in Handles :
         (/\ flash_free_blocks.count = 0
          /\ flash_free_blocks.out = INV
          /\ EnqueueStep(h))
         => /\ ret'.status = "STOREFULL"
            /\ flash_stores'[h].write_addr = flash_stores[h].write_addr
            /\ flash_stores'[h].read_addr = flash_stores[h].read_addr]_vars

\* C11: with a driver reporting no failure, once every object enqueued into
\* the store has been dequeued, released and relinquished, at most the block
\* of the write cursor is still counted as used and every other block is
\* back on the free list.
NoLeak ==
    (/\ Len(hist[0].enq) > 0
     /\ hist[0].natt = Len(hist[0].enq)
     /\ hist[0].rel = 1 .. Len(hist[0].enq)
     /\ ~flash_stores[0].stage_locked)
    => /\ flash_used_block_count <= 1
       /\ Blocks \ {flash_stores[0].write_addr.block} \subseteq ListBlocks(flash_free_blocks)

\* C12: with a driver reporting no failure, relinquish returns SUCCESS for
\* every object of the store enqueued and not yet relinquished, dequeued or
\* not, whatever its size and the pages it lies on.
RelinquishSucceeds ==
    [][\A sid \in Live(0) : Relinquish(0, sid) => ret'.status = "SUCCESS"]_vars
\* The payloads enqueued into store h, in order, less those of the objects
\* relinquished before a dequeue had returned them.
RECURSIVE KeptFrom(_, _)
KeptFrom(h, i) ==
    IF i > Len(hist[h].enq) THEN << >>
    ELSE (IF i \in hist[h].early THEN << >> ELSE <<hist[h].enq[i]>>) \o KeptFrom(h, i + 1)

\* C13: an object relinquished before it was dequeued is not returned by a
\* later dequeue: the payloads the successful dequeues have returned are, in
\* order, the first of the enqueued payloads that were not relinquished
\* before being dequeued.
SkipsRelinquished == IsPrefix(hist[0].deq, KeptFrom(0, 1))
\* C14: while a store's stage is locked, no dequeue or retrieve on the store
\* returns SUCCESS, the bytes of its read stage do not change, and only a
\* release with the sid of the staged header that returns SUCCESS unlocks
\* it; an unlocked stage becomes locked only by a dequeue or a retrieve that
\* returns SUCCESS.
SingleBorrow ==
    [][\A h \in Handles :
         /\ flash_stores[h].stage_locked
            => /\ flash_stores'[h].read_stage = flash_stores[h].read_stage
               /\ (Dequeue(h) \/ \E sid \in Known(h) : Retrieve(h, sid))
                  => ret'.status # "SUCCESS"
               /\ ~flash_stores'[h].stage_locked
                  => Release(h, StageSid(h)) /\ ret'.status = "SUCCESS"
         /\ (~flash_stores[h].stage_locked /\ flash_stores'[h].stage_locked)
            => /\ Dequeue(h) \/ \E sid \in Known(h) : Retrieve(h, sid)
               /\ ret'.status = "SUCCESS"]_vars

\* A dequeue has just been refused on a store that has more to dequeue and
\* whose stage still holds, locked, the object the last successful dequeue
\* returned.
SingleBorrowWitness ==
    /\ flash_stores[0].stage_locked
    /\ ret.op = "dequeue"
    /\ ret.status = "FAILEDSTORE"
    /\ Len(hist[0].deq) >= 1
    /\ Len(hist[0].enq) >= 2
    /\ ObjectOf(flash_stores[0].read_stage).data = hist[0].deq[Len(hist[0].deq)]
    /\ Len(hist[0].deq[Len(hist[0].deq)]) >= 1
\* C15: a dequeue on a store whose stage is locked returns FAILED_STORE in
\* every state of the store, also when the read cursor equals the write
\* cursor.
LockedDequeueFails ==
    [][\A h \in Handles :
         (flash_stores[h].stage_locked /\ Dequeue(h)) => ret'.status = "FAILEDSTORE"]_vars

\* C15, amended: a dequeue on a store whose stage is locked returns TIMEOUT
\* when the read cursor equals the write cursor; when the two differ it
\* returns no status other than FAILED_STORE (the scan for the next header
\* that follows the refused read may not end).
LockedDequeueFailsUnlessEmpty ==
    [][\A h \in Handles :
         (flash_stores[h].stage_locked /\ Dequeue(h))
         => IF flash_stores[h].read_addr = flash_stores[h].write_addr
            THEN ret'.status = "TIMEOUT"
            ELSE ret'.status \in {"FAILEDSTORE", "HANG"}]_vars

\* The store's objects have been dequeued, the last is still borrowed, and
\* a further dequeue has found the read cursor at the write cursor.
LockedDequeueWitness ==
    /\ flash_stores[0].stage_locked
    /\ flash_stores[0].read_addr = flash_stores[0].write_addr
    /\ ret.op = "dequeue"
    /\ ret.status = "TIMEOUT"
    /\ Len(hist[0].deq) >= 1
    /\ Len(hist[0].deq) = Len(hist[0].enq)
    /\ Len(hist[0].deq[Len(hist[0].deq)]) >= 1
    /\ ObjectOf(flash_stores[0].read_stage).data = hist[0].deq[Len(hist[0].deq)]
\* C16: release(h, sid) on a store whose read stage holds a header returns
\* SUCCESS and leaves the stage unlocked when sid is the sid of that header;
\* with any other sid it returns FAILED_STORE and leaves stage_locked as it
\* was, so a locked stage stays locked.
ReleaseMatchesSid ==
    [][\A h \in Handles : \A sid \in Known(h) :
         (Len(flash_stores[h].read_stage) > 0 /\ Release(h, sid))
         => IF sid = StageSid(h)
            THEN ret'.status = "SUCCESS" /\ ~flash_stores'[h].stage_locked
            ELSE /\ ret'.status = "FAILEDSTORE"
                 /\ flash_stores'[h].stage_locked = flash_stores[h].stage_locked]_vars

\* A release has been refused and the stage is still locked on the object
\* the last dequeue returned.
ReleaseMatchesSidWitness ==
    /\ ret.op = "release"
    /\ ret.status = "FAILEDSTORE"
    /\ flash_stores[0].stage_locked
    /\ Len(hist[0].deq) >= 1
    /\ StageSid(0) \in hist[0].out
    /\ Cardinality(Known(0)) >= 2
\* C17: a dequeue returns TIMEOUT exactly when the store's read_addr equals
\* its write_addr, and then leaves the store's read stage, stage lock,
\* cursors and object count as they were; no other operation returns
\* TIMEOUT.
TimeoutOnlyWhenEmpty ==
    [][/\ \A h \in Handles :
            Dequeue(h)
            => /\ ret'.status = "TIMEOUT"
                  <=> flash_stores[h].read_addr = flash_stores[h].write_addr
               /\ ret'.status = "TIMEOUT" => flash_stores'[h] = flash_stores[h]
       /\ ret'.status = "TIMEOUT" => ret'.op = "dequeue"]_vars

\* The store's only object has been dequeued, released and relinquished,
\* and a further dequeue has returned TIMEOUT.
TimeoutOnlyWhenEmptyWitness ==
    /\ ret.op = "dequeue"
    /\ ret.status = "TIMEOUT"
    /\ ~flash_stores[0].stage_locked
    /\ Len(hist[0].enq) = 1
    /\ Len(hist[0].deq) = 1
    /\ hist[0].nrel = 1
    /\ flash_stores[0].write_addr.block # INV
\* C18: for any store, in every reachable state, read_addr equals write_addr
\* if and only if the store is empty: every object an enqueue returned
\* SUCCESS for has been returned by a dequeue.
CursorsEqualIffEmpty ==
    \A h \in Handles :
        flash_stores[h].in_use
        => ((flash_stores[h].read_addr = flash_stores[h].write_addr)
              <=> (Len(hist[h].deq) = Len(hist[h].enq)))
\* C19: after init in FORMAT mode on a device of which the driver reports
\* Bbad of the B blocks bad, the free count is B - Bbad, the bad count is
\* Bbad, the used count is 0 and init has returned B - Bbad.
FormatCounts ==
    ret.op = "init"
    => /\ flash_free_blocks.count = NumBlocks - Cardinality(driver.isbad)
       /\ flash_bad_blocks.count = Cardinality(driver.isbad)
       /\ flash_used_block_count = 0
       /\ ret.val = NumBlocks - Cardinality(driver.isbad)

\* A second init has just run on a device two of whose blocks are reported
\* bad, after blocks had been handed out.
FormatCountsWitness ==
    /\ ret.op = "init"
    /\ hist.inits = 2
    /\ Cardinality(hist.was_held) = 2
    /\ Cardinality(driver.isbad) = 2
    /\ flash_free_blocks.count = NumBlocks - 2
    /\ \E b \in Blocks : flash_blocks[b].next_block = INV /\ flash_free_blocks.out = b
\* C20: the free list is first-in first-out: with erases succeeding,
\* allocate hands out the blocks in the order in which they were reclaimed
\* (ascending after FORMAT), and once every block handed out has been
\* reclaimed, in whatever order, the free list again holds every block the
\* driver does not report bad, with the same count.
FreeListFifo ==
    /\ IsPrefix(hist.allocated, hist.reclaimed)
    /\ hist.held = {}
       => /\ flash_free_blocks.count = NumBlocks - Cardinality(driver.isbad)
          /\ ListBlocks(flash_free_blocks) = Blocks \ driver.isbad

\* Every block was allocated, the blocks were reclaimed in descending order
\* and allocated again, in that order.
FreeListFifoWitness ==
    /\ ret.op = "allocate"
    /\ hist.allocated = [i \in 1 .. 2 * NumBlocks |->
                            IF i <= NumBlocks THEN i - 1 ELSE 2 * NumBlocks - i]
    /\ hist.reclaimed = hist.allocated
    /\ flash_free_blocks.count = 0
\* The slots of the store table that are not in use.
FreeSlots == {s \in Handles : ~flash_stores[s].in_use}

\* C21: a create that returns a handle returns the lowest-numbered slot not
\* in use and takes that slot only; a create refuses with INVALID_HANDLE
\* for want of a slot exactly when every slot is in use, so at most
\* FLASH_MAX_STORES stores exist; a destroy frees its slot and no other, so
\* the next successful create returns it when it is the lowest free slot.
CreateLowestFreeSlot ==
    [][/\ ret'.op = "create"
          => /\ ret'.h # -1
                => /\ ret'.h \in FreeSlots
                   /\ \A t \in FreeSlots : ret'.h <= t
                   /\ flash_stores'[ret'.h].in_use
                   /\ \A t \in Handles \ {ret'.h} : flash_stores'[t] = flash_stores[t]
             /\ ret'.h = -1 => /\ ret'.status = "INVALID_HANDLE"
                               /\ \A t \in Handles :
                                      flash_stores'[t].in_use = flash_stores[t].in_use
             /\ (FreeSlots = {}) <=> (ret'.val = 1)
             /\ ret'.val = 0 <=> ret'.h # -1
       /\ ret'.op = "destroy"
          => /\ ret'.h \notin FreeSlots
             /\ {s \in Handles : ~flash_stores'[s].in_use} = FreeSlots \cup {ret'.h}
       /\ (ret.op = "destroy" /\ ret'.op = "create" /\ ret'.val = 0
           /\ \A t \in FreeSlots : ret.h <= t)
          => ret'.h = ret.h]_vars

\* Every slot was in use, a create was refused, the highest slot was
\* destroyed while a lower one was free too, and the create that followed
\* took the lower one.
CreateLowestFreeSlotWitness ==
    /\ ret.op = "create" /\ ret.h = 0
    /\ FreeSlots = {FLASH_MAX_STORES - 1}
    /\ flash_stores[FLASH_MAX_STORES - 1].max_data_size = MaxAttr + HdrSize
    /\ flash_stores[0].max_data_size = PageSize + HdrSize

Listed == ListBlocks(flash_free_blocks) \cup ListBlocks(flash_bad_blocks)

\* The next enqueue on store h starts with a page write that fails at page 0
\* of the store's write block.
FailsAtPageZero(h) ==
    /\ flash_stores[h].write_addr.block \in Blocks
    /\ flash_stores[h].write_addr.page = 0
    /\ <<flash_stores[h].write_addr.block, 0>> \in driver.wfail

\* What flash_free_allocate returns for the replacement of the write block
\* of store h after that failure.
ReplacementOf(h) ==
    flash_free_allocate(
        RetireFailed([Dev EXCEPT !.errs = @ + 1], flash_stores[h].write_addr), INV)

\* C23: when an enqueue's page write fails at page 0 of block b and a
\* replacement r is allocated, b ends on the free or the bad list, every
\* block p of the chain that had b as its next_block has r as next_block
\* with r.prev_block = p, and no block that is on the free or bad list gets
\* a next_block or prev_block pointing at r.
BridgeAroundFailedBlock ==
    [][\A h \in Handles :
         (/\ EnqueueStep(h)
          /\ ret'.status # "STOREFULL"
          /\ FailsAtPageZero(h)
          /\ ReplacementOf(h).status = "SUCCESS")
         => LET b == flash_stores[h].write_addr.block
                r == ReplacementOf(h).block
            IN  /\ b \in ListIn(flash_blocks', flash_free_blocks')
                        \cup ListIn(flash_blocks', flash_bad_blocks')
                /\ \A q \in Blocks \ Listed :
                       flash_blocks[q].next_block = b
                       => /\ flash_blocks'[q].next_block = r
                          /\ flash_blocks'[r].prev_block = q
                /\ \A f \in Listed :
                       /\ flash_blocks'[f].next_block # flash_blocks[f].next_block
                          => flash_blocks'[f].next_block # r
                       /\ flash_blocks'[f].prev_block # flash_blocks[f].prev_block
                          => flash_blocks'[f].prev_block # r]_vars

\* C24: an allocate returns SUCCESS only with a block it has erased; every
\* candidate whose erase fails in the call leaves the free list for the bad
\* list with error_count incremented once, and no later allocate returns
\* it; an allocate that finds no block to erase returns FAILED_STORE.
AllocateSkipsFailedErase ==
    [][Allocate
       => LET failed == EraseFailures(Dev, flash_free_blocks.out, NumBlocks)
          IN  /\ ret'.status = "SUCCESS"
                 => /\ ret'.val \in ListBlocks(flash_free_blocks) \ failed
                    /\ DriverEraseOk(Dev, ret'.val)
                    /\ driver'.flash[ret'.val] = ErasedBlock
                    /\ ret'.val \notin hist.failed
              /\ \A c \in failed :
                     /\ c \in ListIn(flash_blocks', flash_bad_blocks')
                     /\ c \notin ListIn(flash_blocks', flash_free_blocks')
              /\ flash_error_count' = flash_error_count + Cardinality(failed)
              /\ flash_bad_blocks'.count = flash_bad_blocks.count + Cardinality(failed)
              /\ ListBlocks(flash_free_blocks) \subseteq failed
                 => ret'.status = "FAILEDSTORE"]_vars

\* The n pages from address addr on, following next_block from the last
\* page of a block.
RECURSIVE PagesFrom(_, _)
PagesFrom(addr, n) ==
    IF n = 0 \/ addr.block \notin Blocks THEN {}
    ELSE {<<addr.block, addr.page>>}
         \cup PagesFrom(IF addr.page + 1 = flash_blocks[addr.block].max_pages
                        THEN Addr(flash_blocks[addr.block].next_block, 0)
                        ELSE Addr(addr.block, addr.page + 1),
                        n - 1)

\* The pages the object of store h with the sid occupies: its header page
\* and the pages after it that hold the rest of header and payload.
ObjectPages(h, sid) ==
    PagesFrom(Addr(FLASH_GET_BLOCK(sid), FLASH_GET_PAGE(sid)),
              (HdrSize + Len(hist[h].enq[LastAt(h, sid)]) + PageSize - 1) \div PageSize)

\* The blocks a step has put on the free list.
ReclaimedInStep ==
    ListIn(flash_blocks', flash_free_blocks') \ ListBlocks(flash_free_blocks)

\* C25: a relinquish that returns SUCCESS clears the page_use bit of every
\* page the object occupies, ceil((header_size + size) / page_size) pages
\* from the SID's address on, and changes the page_use bit of no other page;
\* a block it reclaims has all its bits set again.
RelinquishMarksPages ==
    [][\A sid \in Known(0) :
         (Relinquish(0, sid) /\ ret'.status = "SUCCESS")
         => \A b \in Blocks :
               IF b \in ReclaimedInStep
               THEN flash_blocks'[b].page_use = Pages
               ELSE \A pg \in Pages :
                       IF <<b, pg>> \in ObjectPages(0, sid)
                       THEN pg \notin flash_blocks'[b].page_use
                       ELSE (pg \in flash_blocks'[b].page_use)
                                <=> (pg \in flash_blocks[b].page_use)]_vars

\* The first page from addr on, page by page and along next_block, whose
\* header carries the sync magic; an invalid block when there is none.
RECURSIVE FirstSync(_, _)
FirstSync(addr, fuel) ==
    IF addr.block \notin Blocks \/ fuel = 0 THEN Addr(INV, 0)
    ELSE IF HdrView(DriverRead(Dev, addr, HdrSize)).sync = FLASH_OBJECT_SYNC THEN addr
    ELSE FirstSync(IF addr.page + 1 >= flash_blocks[addr.block].max_pages
                   THEN Addr(flash_blocks[addr.block].next_block, 0)
                   ELSE Addr(addr.block, addr.page + 1),
                   fuel - 1)

\* C26: when a dequeue on a store whose cursors differ and whose stage is
\* unlocked fails, it leaves read_addr on the first page, from the page the
\* read failed at onward and skipping none, whose header carries the sync
\* magic, or on an invalid block when there is no such page.
ScanResynchronises ==
    [][(/\ Dequeue(0)
        /\ flash_stores[0].read_addr # flash_stores[0].write_addr
        /\ ~flash_stores[0].stage_locked
        /\ ret'.status # "SUCCESS")
       => LET first == FirstSync(flash_stores[0].read_addr, NumBlocks * PagesPerBlock)
          IN  IF first.block = INV
              THEN flash_stores'[0].read_addr.block = INV
              ELSE flash_stores'[0].read_addr = first]_vars

\* C27: a dequeue refused because the read stage is locked leaves read_addr
\* as it was, and every dequeue that returns SUCCESS returns the payload of
\* the enqueued object that follows the last one dequeued.
LockedDequeueKeepsCursor ==
    [][Dequeue(0)
       => /\ (flash_stores[0].stage_locked /\ ret'.status \notin {"SUCCESS", "TIMEOUT"})
             => flash_stores'[0].read_addr = flash_stores[0].read_addr
          /\ ret'.status = "SUCCESS"
             => /\ Len(hist[0].deq) < Len(hist[0].enq)
                /\ ObjectOf(flash_stores'[0].read_stage).data
                       = hist[0].enq[Len(hist[0].deq) + 1]]_vars

\* C28: an enqueue that returns a status other than SUCCESS leaves the
\* store's object_count, read_addr and write_addr as they were, and every
\* dequeue that returns SUCCESS returns the payload of the successfully
\* enqueued object that follows the last one dequeued: nothing of a failed
\* enqueue becomes visible.
FailedEnqueueChangesNothing ==
    [][/\ \A n \in Sizes, k \in Sizes :
            (Enqueue(0, n, k) /\ ret'.status # "SUCCESS")
            => /\ flash_stores'[0].object_count = flash_stores[0].object_count
               /\ flash_stores'[0].read_addr = flash_stores[0].read_addr
               /\ flash_stores'[0].write_addr = flash_stores[0].write_addr
       /\ (Dequeue(0) /\ ret'.status = "SUCCESS")
            => /\ Len(hist[0].deq) < Len(hist[0].enq)
               /\ ObjectOf(flash_stores'[0].read_stage).data
                      = hist[0].enq[Len(hist[0].deq) + 1]]_vars

\* C29: every enqueue returns: for no pattern of page-write and erase
\* outcomes does the loop of flash_data_write go on for ever.
EnqueueTerminates ==
    [][\A h \in Handles : EnqueueStep(h) => ret'.status # "HANG"]_vars

\* C30: in every reachable state the walk from the bad list's out end along
\* next_block ends at the invalid index after exactly bad-count blocks, no
\* block twice, each of them reported bad by the driver or with a failed
\* erase: the bad blocks stats logs are exactly the bad blocks.
BadListWellFormed ==
    LET s == bplib_store_flash_stats(Dev)
    IN  /\ s.bad.ends
        /\ Len(s.bad.logged) = s.num_bad_blocks
        /\ \A i, j \in 1 .. Len(s.bad.logged) :
               i # j => s.bad.logged[i] # s.bad.logged[j]
        /\ \A i \in 1 .. Len(s.bad.logged) :
               s.bad.logged[i] \in driver.isbad \cup hist.failed


\* The first n blocks linked from block b on through next_block, in order.
RECURSIVE ListSeq(_, _, _)
ListSeq(blocks, b, n) ==
    IF n = 0 \/ b \notin Blocks THEN << >>
    ELSE <<b>> \o ListSeq(blocks, blocks[b].next_block, n - 1)

\* The free list from its out end, in the order flash_free_allocate takes it.
FreeSeq == ListSeq(flash_blocks, flash_free_blocks.out, flash_free_blocks.count)

\* The pages a write or read of n bytes takes, one per page_size bytes or
\* part of it.
PagesOf(n) == (n + PageSize - 1) \div PageSize

\* The times addr->page reaches max_pages while n bytes are written from
\* start, every block having all its pages.
BlocksFilled(start, n) == (start.page + PagesOf(n)) \div PagesPerBlock

\* The address PagesOf(n) pages after start, the blocks of free being
\* chained in order as each block is filled.
EndAddr(start, n, free) ==
    Addr(IF BlocksFilled(start, n) = 0 THEN start.block
         ELSE free[BlocksFilled(start, n)],
         (start.page + PagesOf(n)) % PagesPerBlock)

\* The blocks of free are chained after block first in the registry blocks:
\* each is the next_block of the one before it, which is its prev_block.
Chained(blocks, first, free) ==
    \A i \in 1 .. Len(free) :
        LET before == IF i = 1 THEN first ELSE free[i - 1]
        IN  /\ blocks[before].next_block = free[i]
            /\ blocks[free[i]].prev_block = before

\* What flash_data_read leaves after the write it follows: the bytes
\* written, and the address the write left.
ReadBack == [addr |-> hist.addr, data |-> hist.data, status |-> "SUCCESS", errs |-> 0]

\* C31: with a driver that reports no failure, a flash_data_write of n > 0
\* bytes from a valid address leaves the address ceil(n / page_size) pages
\* further, on page 0 of a block newly taken from the free list and chained
\* after the block just filled each time max_pages is reached; the
\* flash_data_read of n bytes from the same start address then returns the
\* bytes written and leaves the same address.
DataRoundTrip ==
    [][/\ \A start \in StartAddrs, n \in DataSizes \ {0} :
              ValidAddr(Dev, start) /\ DataWrite(start, n)
              => /\ BlocksFilled(start, n) <= Len(FreeSeq)
                 /\ hist'.addr = EndAddr(start, n, FreeSeq)
                 /\ Chained(flash_blocks', start.block,
                            SubSeq(FreeSeq, 1, BlocksFilled(start, n)))
       /\ DataRead /\ Len(hist.data) > 0 /\ ValidAddr(Dev, hist.start)
          => hist'.read = ReadBack]_vars

\* C31, amended: with a driver that reports no failure, a flash_data_write
\* of n > 0 bytes from a valid address returns SUCCESS exactly when the free
\* list holds a block for each time the write reaches max_pages, the time
\* its last page does included, and FAILEDSTORE otherwise; when it returns
\* SUCCESS the address is ceil(n / page_size) pages further, the blocks
\* taken from the out end of the free list are chained in order, and the
\* flash_data_read of n bytes from the same start address returns SUCCESS,
\* the bytes written and the same address.
DataRoundTripWhenBlocksLeft ==
    [][/\ \A start \in StartAddrs, n \in DataSizes \ {0} :
              ValidAddr(Dev, start) /\ DataWrite(start, n)
              => IF BlocksFilled(start, n) <= Len(FreeSeq)
                 THEN /\ ret'.status = "SUCCESS"
                      /\ hist'.addr = EndAddr(start, n, FreeSeq)
                      /\ Chained(flash_blocks', start.block,
                                 SubSeq(FreeSeq, 1, BlocksFilled(start, n)))
                      /\ flash_free_blocks'.count
                             = flash_free_blocks.count - BlocksFilled(start, n)
                 ELSE ret'.status = "FAILEDSTORE"
       /\ DataRead /\ Len(hist.data) > 0 /\ hist.wstatus = "SUCCESS"
          => hist'.read = ReadBack]_vars

\* A write of more than a page that crossed into a block it chained has
\* been read back.
DataRoundTripWitness ==
    /\ ret.op = "data_read"
    /\ hist.wstatus = "SUCCESS"
    /\ Len(hist.data) > PageSize
    /\ hist.addr.block # hist.start.block
    /\ hist.start.page > 0
    /\ hist.read = ReadBack


\* Store h but for its read stage and its stage lock.
BesidesStage(stores, h) ==
    [stores EXCEPT ![h].read_stage = << >>, ![h].stage_locked = FALSE]

\* A retrieve leaves the read address, the write address and the object
\* count of its store and every block control record as they were, and the
\* stage lock too unless it returns SUCCESS.
RetrieveKeeps(h) ==
    /\ flash_stores'[h].read_addr = flash_stores[h].read_addr
    /\ flash_stores'[h].write_addr = flash_stores[h].write_addr
    /\ flash_stores'[h].object_count = flash_stores[h].object_count
    /\ flash_blocks' = flash_blocks
    /\ ret'.status # "SUCCESS"
       => flash_stores'[h].stage_locked = flash_stores[h].stage_locked

\* Nothing but the read stage and the stage lock of store h differs: the
\* other fields and stores, the lists, the used counter, the device lock
\* and the flash contents are as they were.
OnlyStage(h) ==
    /\ BesidesStage(flash_stores', h) = BesidesStage(flash_stores, h)
    /\ flash_free_blocks' = flash_free_blocks
    /\ flash_bad_blocks' = flash_bad_blocks
    /\ flash_used_block_count' = flash_used_block_count
    /\ flash_device_lock' = flash_device_lock
    /\ driver' = driver

\* C32: a retrieve, whether it succeeds or fails, changes neither the
\* read_addr, the write_addr or the object_count of its store nor any block
\* control record; it changes only the contents of the read stage and, when
\* it returns SUCCESS, the stage lock.
RetrieveFrame ==
    [][\A h \in Handles : \A sid \in Known(h) :
         Retrieve(h, sid)
         => /\ RetrieveKeeps(h)
            /\ OnlyStage(h)
            /\ flash_error_count' = flash_error_count]_vars

\* C32, amended: a retrieve, whether it succeeds or fails, changes neither
\* the read_addr, the write_addr or the object_count of its store nor any
\* block control record; it changes only the contents of the read stage,
\* the stage lock when it returns SUCCESS, and flash_error_count, which it
\* increments by one when it returns the error of a driver read that failed.
RetrieveFrameButErrorCount ==
    [][\A h \in Handles : \A sid \in Known(h) :
         Retrieve(h, sid)
         => /\ RetrieveKeeps(h)
            /\ OnlyStage(h)
            /\ flash_error_count'
                  = flash_error_count + (IF ret'.status = "ERROR" THEN 1 ELSE 0)]_vars

\* A retrieve of an object of two pages has failed on a driver read error
\* after it had read the object's first page into the stage.
RetrieveFrameWitness ==
    /\ ret.op = "retrieve"
    /\ ret.status = "ERROR"
    /\ flash_error_count = 1
    /\ ~flash_stores[0].stage_locked
    /\ Len(flash_stores[0].read_stage) = PageSize
    /\ IsHdrUnit(flash_stores[0].read_stage[1])
    /\ flash_stores[0].read_addr # flash_stores[0].write_addr

====
